---------------------------- MODULE Spec2Model ----------------------------
(***************************************************************************)
(* The in-memory record store (InMemoryDatabase<User>) and the chain that  *)
(* reaches it: UserController -> UserApplicationService -> UserAdapterImpl *)
(* -> InMemoryDatabase.  One adapter instance owns one store.              *)
(*                                                                         *)
(* JavaScript arrays are 0-based; the store is a TLA+ sequence, so element *)
(* i of the array is store[i + 1].  findIndex returns -1 for no match.     *)
(***************************************************************************)
EXTENDS Integers, Sequences, FiniteSets

VARIABLES
    store,    \* InMemoryDatabase.store : T[]
    live,     \* history: live[i] iff store[i] was put there by create and
              \* no update has replaced that position since
    call,     \* the last call made: operation and arguments
    ret,      \* how the last call ended: value returned or error thrown
    step      \* history: number of steps of the end-to-end scenario that
              \* the most recent calls have completed, 0 when none

vars == <<store, live, call, ret, step>>

\* Largest number of records the store holds in the model.
MaxLen == 3

Ids == {"1", "2"}
Usernames == {"alice", "alice2"}
Passwords == {"pw"}

\* class User { constructor(public id, public username, public password) }
User(id, username, password) ==
    [id |-> id, username |-> username, password |-> password]

Users == {User(i, u, p) : i \in Ids, u \in Usernames, p \in Passwords}

\* JavaScript's undefined: the result of Array.find without a match, and
\* the value of an omitted optional parameter.
Undefined == [undefined |-> TRUE]

Keys == {"id", "username", "password"}

KeyValues(key) ==
    CASE key = "id" -> Ids
      [] key = "username" -> Usernames
      [] key = "password" -> Passwords

\* Partial<User>: any subset of the attributes, each with a value.
Partials ==
    UNION {{obj \in [K -> Ids \cup Usernames \cup Passwords] :
                \A key \in K : obj[key] \in KeyValues(key)} : K \in SUBSET Keys}

(***************************************************************************)
(* Array primitives used by the store.                                     *)
(***************************************************************************)

\* The array primitives below take the array and, as tests, the results of
\* the callback on its elements: tests[i] is the callback applied to arr[i].

\* Array.prototype.findIndex: 0-based index of the first element that
\* satisfies the test, -1 when there is none.
FindIndex(tests) ==
    IF \E i \in 1..Len(tests) : tests[i]
    THEN (CHOOSE i \in 1..Len(tests) :
             tests[i] /\ \A j \in 1..(i - 1) : ~tests[j]) - 1
    ELSE -1

\* Array.prototype.find: the first element that satisfies the test, or
\* undefined.
ArrayFind(arr, tests) ==
    LET index == FindIndex(tests)
    IN  IF index = -1 THEN Undefined ELSE arr[index + 1]

\* Array.prototype.filter: a new array of the elements that satisfy the
\* test, in order.
RECURSIVE ArrayFilter(_, _)
ArrayFilter(arr, tests) ==
    IF arr = <<>> THEN <<>>
    ELSE (IF Head(tests) THEN <<Head(arr)>> ELSE <<>>)
             \o ArrayFilter(Tail(arr), Tail(tests))

\* Array.prototype.splice(index, 1): removes the element at 0-based index.
Splice1(arr, index) ==
    SubSeq(arr, 1, index) \o SubSeq(arr, index + 2, Len(arr))

(***************************************************************************)
(* Results of a call.                                                      *)
(***************************************************************************)

\* A call that returns nothing (void).
ReturnVoid ==
    [kind |-> "return", msg |-> "", item |-> Undefined, items |-> <<>>,
     alias |-> FALSE]

\* A call that returns one record, or undefined.
ReturnItem(item) == [ReturnVoid EXCEPT !.item = item]

\* A call that returns an array; alias is TRUE when the array returned is
\* the store's own array object and FALSE when it is a new array.
ReturnItems(items, alias) ==
    [ReturnVoid EXCEPT !.items = items, !.alias = alias]

\* throw new Error(msg)
Throw(msg) == [ReturnVoid EXCEPT !.kind = "throw", !.msg = msg]

\* What a method does: the store it leaves and how it ends.
Outcome(s, r) == [store |-> s, ret |-> r]

(***************************************************************************)
(* InMemoryDatabase<T>                                                     *)
(***************************************************************************)

\* A faulty callback: one key of obj with the same value in item is enough.
MatchesAnyKey(item, obj) == \E key \in DOMAIN obj : item[key] = obj[key]

\* The callback of find and filter: every key of obj has the same value in
\* item (for (const key in obj) if (item[key] !== obj[key]) return false).
Matches(item, obj) == \A key \in DOMAIN obj : item[key] = obj[key]

\* The callback of findById, update and delete: (item) => item.id === id.
HasId(item, id) == item.id = id

\* The callbacks applied to every record of s.
MatchTests(s, obj) == [i \in 1..Len(s) |-> Matches(s[i], obj)]
IdTests(s, id) == [i \in 1..Len(s) |-> HasId(s[i], id)]

\* Array.prototype.findLast in place of find: the last element that
\* satisfies the test, or undefined.
ArrayFindLast(arr, tests) ==
    IF \E i \in 1..Len(tests) : tests[i]
    THEN arr[CHOOSE i \in 1..Len(tests) :
                 tests[i] /\ \A j \in (i + 1)..Len(tests) : ~tests[j]]
    ELSE Undefined

\* A faulty find: the last match.
FindLastMatch(s, obj) ==
    [store |-> s,
     ret |-> ReturnItem(ArrayFindLast(s, MatchTests(s, obj)))]

InMemoryDatabase_find(s, obj) ==
    Outcome(s, ReturnItem(ArrayFind(s, MatchTests(s, obj))))

\* A faulty findById: the last record with the identifier.
FindByIdLastMatch(s, id) ==
    [store |-> s,
     ret |-> ReturnItem(ArrayFindLast(s, IdTests(s, id)))]

InMemoryDatabase_findById(s, id) ==
    Outcome(s, ReturnItem(ArrayFind(s, IdTests(s, id))))

InMemoryDatabase_filter(s, obj) ==
    IF obj = Undefined \/ Cardinality(DOMAIN obj) = 0
    THEN Outcome(s, ReturnItems(s, TRUE))
    ELSE Outcome(s, ReturnItems(
             ArrayFilter(s, MatchTests(s, obj)), FALSE))

\* A faulty create: refuses an identifier that is already stored.
CreateUnlessStored(s, item) ==
    IF \E i \in 1..Len(s) : s[i].id = item.id
    THEN [store |-> s, ret |-> Throw("Item already exists")]
    ELSE [store |-> Append(s, item), ret |-> ReturnVoid]

InMemoryDatabase_create(s, item) == Outcome(Append(s, item), ReturnVoid)

\* A faulty update: pushes the item instead of assigning it to the index.
UpdateByPush(s, id, item) ==
    LET index == FindIndex(IdTests(s, id))
    IN  IF index = -1
        THEN [store |-> s, ret |-> Throw("Item not found")]
        ELSE [store |-> Append(s, item), ret |-> ReturnItem(item)]

\* A faulty update: returns the item without storing it.
UpdateWithoutStoring(s, id, item) ==
    LET index == FindIndex(IdTests(s, id))
    IN  IF index = -1
        THEN [store |-> s, ret |-> Throw("Item not found")]
        ELSE [store |-> s, ret |-> ReturnItem(item)]

InMemoryDatabase_update(s, id, item) ==
    LET index == FindIndex(IdTests(s, id))
    IN  IF index = -1
        THEN Outcome(s, Throw("Item not found"))
        ELSE Outcome([s EXCEPT ![index + 1] = item], ReturnItem(item))

\* A faulty delete: no check of the index, so splice(-1, 1) removes the
\* last record when none has the identifier.
DeleteUnchecked(s, id) ==
    LET index == FindIndex(IdTests(s, id))
    IN  IF index = -1
        THEN [store |-> SubSeq(s, 1, Len(s) - 1), ret |-> ReturnVoid]
        ELSE [store |-> Splice1(s, index), ret |-> ReturnVoid]

\* A faulty delete: splice(index) without a count removes the record and
\* all that follow it.
DeleteToEnd(s, id) ==
    LET index == FindIndex(IdTests(s, id))
    IN  IF index = -1
        THEN [store |-> s, ret |-> Throw("Item not found")]
        ELSE [store |-> SubSeq(s, 1, index), ret |-> ReturnVoid]

InMemoryDatabase_delete(s, id) ==
    LET index == FindIndex(IdTests(s, id))
    IN  IF index = -1
        THEN Outcome(s, Throw("Item not found"))
        ELSE Outcome(Splice1(s, index), ReturnVoid)

(***************************************************************************)
(* UserAdapterImpl, UserApplicationService, UserController.  None of them  *)
(* catches: an error thrown below ends the call with that error.           *)
(***************************************************************************)

\* A faulty getById: returns what findById returned, undefined included.
GetByIdUnchecked(s, id) == InMemoryDatabase_findById(s, id)

UserAdapterImpl_getById(s, id) ==
    LET found == InMemoryDatabase_findById(s, id)
        user == found.ret.item
    IN  IF found.ret.kind = "throw" THEN found
        ELSE IF user = Undefined
             THEN Outcome(found.store, Throw("User not found"))
             ELSE Outcome(found.store, ReturnItem(user))

UserAdapterImpl_add(s, user) == InMemoryDatabase_create(s, user)

UserApplicationService_getUser(s, id) == UserAdapterImpl_getById(s, id)

UserApplicationService_createUser(s, user) == UserAdapterImpl_add(s, user)

UserController_getUser(s, id) == UserApplicationService_getUser(s, id)

UserController_createUser(s, id, username, password) ==
    UserApplicationService_createUser(s, User(id, username, password))

(***************************************************************************)
(* Calls.                                                                  *)
(***************************************************************************)

Call(op, id, item, obj) == [op |-> op, id |-> id, item |-> item, obj |-> obj]

\* The end-to-end scenario, from an empty store.
Alice == User("1", "alice", "pw")
Alice2 == User("1", "alice2", "pw")

Script ==
    << Call("create", "", Alice, Undefined),
       Call("findById", "1", Undefined, Undefined),
       Call("update", "1", Alice2, Undefined),
       Call("findById", "1", Undefined, Undefined),
       Call("delete", "1", Undefined, Undefined),
       Call("findById", "1", Undefined, Undefined),
       Call("getById", "1", Undefined, Undefined) >>

\* The scenario advances when the call made is its next one, starts when
\* its first call is made on an empty store, and is abandoned otherwise.
NextStep(c) ==
    IF step \in 1..(Len(Script) - 1) /\ c = Script[step + 1] THEN step + 1
    ELSE IF store = <<>> /\ c = Script[1] THEN 1
    ELSE 0

\* A call c that ends as out; lv is the history of the store it leaves.
Does(c, out, lv) ==
    /\ call' = c
    /\ store' = out.store
    /\ ret' = out.ret
    /\ live' = lv
    /\ step' = NextStep(c)

Init ==
    /\ store = <<>>
    /\ live = <<>>
    /\ call = Call("new", "", Undefined, Undefined)
    /\ ret = ReturnVoid
    /\ step = 0

Find(obj) ==
    Does(Call("find", "", Undefined, obj), InMemoryDatabase_find(store, obj), live)

FindById(id) ==
    Does(Call("findById", id, Undefined, Undefined),
         InMemoryDatabase_findById(store, id), live)

Filter(obj) ==
    Does(Call("filter", "", Undefined, obj),
         InMemoryDatabase_filter(store, obj), live)

Create(item) ==
    /\ Len(store) < MaxLen
    /\ Does(Call("create", "", item, Undefined),
            InMemoryDatabase_create(store, item), live)

Update(id, item) ==
    Does(Call("update", id, item, Undefined),
         InMemoryDatabase_update(store, id, item), live)

Delete(id) ==
    Does(Call("delete", id, Undefined, Undefined),
         InMemoryDatabase_delete(store, id), live)

GetById(id) ==
    Does(Call("getById", id, Undefined, Undefined),
         UserAdapterImpl_getById(store, id), live)

Add(user) ==
    /\ Len(store) < MaxLen
    /\ Does(Call("add", "", user, Undefined),
            UserAdapterImpl_add(store, user), live)

ServiceGetUser(id) ==
    Does(Call("service.getUser", id, Undefined, Undefined),
         UserApplicationService_getUser(store, id), live)

ServiceCreateUser(user) ==
    /\ Len(store) < MaxLen
    /\ Does(Call("service.createUser", "", user, Undefined),
            UserApplicationService_createUser(store, user), live)

ControllerGetUser(id) ==
    Does(Call("controller.getUser", id, Undefined, Undefined),
         UserController_getUser(store, id), live)

ControllerCreateUser(id, username, password) ==
    /\ Len(store) < MaxLen
    /\ Does(Call("controller.createUser", "", User(id, username, password),
                 Undefined),
            UserController_createUser(store, id, username, password), live)

(***************************************************************************)
(* The caller of filter holds the array it returned and may change it with *)
(* the Array methods.  When that array is the store's own (ret.alias) the  *)
(* change is a change of the store; a new array is the caller's alone.     *)
(***************************************************************************)

\* The store after result.push(item), result being the array a filter call
\* returned as r.
CallerPushes(s, r, item) == IF r.alias THEN Append(s, item) ELSE s

\* The store after result.pop().
CallerPops(s, r) == IF r.alias THEN SubSeq(s, 1, Len(s) - 1) ELSE s

CallerPush(item) ==
    /\ call.op = "filter"
    /\ Len(ret.items) < MaxLen
    /\ Does(Call("caller.push", "", item, Undefined),
            Outcome(CallerPushes(store, ret, item), ReturnVoid), live)

CallerPop ==
    /\ call.op = "filter"
    /\ ret.items # <<>>
    /\ Does(Call("caller.pop", "", Undefined, Undefined),
            Outcome(CallerPops(store, ret),
                    ReturnItem(ret.items[Len(ret.items)])), live)

Next ==
    \/ \E obj \in Partials : Find(obj)
    \/ \E id \in Ids : FindById(id)
    \/ \E obj \in Partials \cup {Undefined} : Filter(obj)
    \/ \E item \in Users : Create(item)
    \/ \E id \in Ids, item \in Users : Update(id, item)
    \/ \E id \in Ids : Delete(id)
    \/ \E id \in Ids : GetById(id)
    \/ \E user \in Users : Add(user)
    \/ \E id \in Ids : ServiceGetUser(id)
    \/ \E user \in Users : ServiceCreateUser(user)
    \/ \E id \in Ids : ControllerGetUser(id)
    \/ \E id \in Ids, username \in Usernames, password \in Passwords :
           ControllerCreateUser(id, username, password)
    \/ \E item \in Users : CallerPush(item)
    \/ CallerPop

Spec == Init /\ [][Next]_vars

(***************************************************************************)
(* The store with its history: the same calls on the store, each keeping   *)
(* live in step with the positions of store.                               *)
(***************************************************************************)

HistCreate(item) ==
    /\ Len(store) < MaxLen
    /\ Does(Call("create", "", item, Undefined),
            InMemoryDatabase_create(store, item), Append(live, TRUE))

HistUpdate(id, item) ==
    LET index == FindIndex(IdTests(store, id))
    IN  Does(Call("update", id, item, Undefined),
             InMemoryDatabase_update(store, id, item),
             IF index = -1 THEN live ELSE [live EXCEPT ![index + 1] = FALSE])

HistDelete(id) ==
    LET index == FindIndex(IdTests(store, id))
    IN  Does(Call("delete", id, Undefined, Undefined),
             InMemoryDatabase_delete(store, id),
             IF index = -1 THEN live ELSE Splice1(live, index))

HistCallerPush(item) ==
    /\ call.op = "filter"
    /\ Len(ret.items) < MaxLen
    /\ Does(Call("caller.push", "", item, Undefined),
            Outcome(CallerPushes(store, ret, item), ReturnVoid),
            CallerPushes(live, ret, FALSE))

HistCallerPop ==
    /\ call.op = "filter"
    /\ ret.items # <<>>
    /\ Does(Call("caller.pop", "", Undefined, Undefined),
            Outcome(CallerPops(store, ret),
                    ReturnItem(ret.items[Len(ret.items)])),
            CallerPops(live, ret))

HistNext ==
    \/ \E id \in Ids : FindById(id)
    \/ Filter(Undefined)
    \/ \E item \in Users : HistCreate(item)
    \/ \E id \in Ids, item \in Users : HistUpdate(id, item)
    \/ \E id \in Ids : HistDelete(id)
    \/ \E item \in Users : HistCallerPush(item)
    \/ HistCallerPop

HistSpec == Init /\ [][HistNext]_vars

(***************************************************************************)
(* Properties.                                                             *)
(***************************************************************************)

\* item has, for every key of obj, the value obj gives it.
HasAllPairs(item, obj) ==
    \A key \in Keys : key \in DOMAIN obj => item[key] = obj[key]

\* The positions of s whose records obj selects.
MatchingPositions(s, obj) == {i \in 1..Len(s) : HasAllPairs(s[i], obj)}

\* The positions of s whose records carry the identifier.
PositionsOfId(s, id) == {i \in 1..Len(s) : s[i].id = id}

\* The k-th smallest member of a set of positions.
NthOf(M, k) == CHOOSE i \in M : Cardinality({j \in M : j < i}) = k - 1

\* The number of positions of s that hold item.
Occurrences(s, item) == Cardinality({i \in 1..Len(s) : s[i] = item})

CreateOps == {"create", "add", "service.createUser", "controller.createUser"}
GetOps == {"getById", "service.getUser", "controller.getUser"}

\* C1 (as claimed): every record passed to create and neither replaced by
\* update nor removed since is the record findById returns for its
\* identifier, whatever else the store holds.
C1_CreatedRecordIsFound ==
    \A i \in 1..Len(store) :
        live[i] =>
            InMemoryDatabase_findById(store, store[i].id).ret.item = store[i]

\* C1 (amended): every record passed to create and neither replaced nor
\* removed since is the record findById returns for its identifier, provided
\* no earlier position holds a different record with that identifier.
C1_CreatedRecordIsFoundIfFirst ==
    \A i \in 1..Len(store) :
        (/\ live[i]
         /\ \A j \in 1..(i - 1) :
                store[j].id = store[i].id => store[j] = store[i])
        => InMemoryDatabase_findById(store, store[i].id).ret.item = store[i]

\* A created record at the third position, the only one with its identifier,
\* has just been found by findById.
C1_Witness ==
    /\ Len(store) = 3
    /\ live[3]
    /\ PositionsOfId(store, store[3].id) = {3}
    /\ call.op = "findById"
    /\ call.id = store[3].id
    /\ ret.item = store[3]

\* C2: update and delete with an identifier no stored record has throw
\* "Item not found" and leave the store as it was.
C2_NotFoundLeavesStore ==
    [][(/\ call'.op \in {"update", "delete"}
        /\ PositionsOfId(store, call'.id) = {})
       => (/\ ret'.kind = "throw"
           /\ ret'.msg = "Item not found"
           /\ store' = store)]_vars

\* An update or delete has failed on a store that holds two records.
C2_Witness ==
    /\ call.op \in {"update", "delete"}
    /\ ret.kind = "throw"
    /\ Len(store) = 2
    /\ PositionsOfId(store, call.id) = {}

\* C3 (as claimed): update with an identifier some stored record has puts
\* the item at the first position with that identifier, changes nothing
\* else, returns the item, and findById with that identifier then returns
\* the item.
C3_UpdateThenFound ==
    [][(/\ call'.op = "update"
        /\ PositionsOfId(store, call'.id) # {})
       => LET first == NthOf(PositionsOfId(store, call'.id), 1)
          IN  /\ store' = [store EXCEPT ![first] = call'.item]
              /\ ret' = ReturnItem(call'.item)
              /\ InMemoryDatabase_findById(store', call'.id).ret.item
                     = call'.item]_vars

\* C3 (amended): the same, with findById returning the item when the item
\* carries the identifier update was called with.
C3_UpdateThenFoundIfSameId ==
    [][(/\ call'.op = "update"
        /\ PositionsOfId(store, call'.id) # {})
       => LET first == NthOf(PositionsOfId(store, call'.id), 1)
          IN  /\ store' = [store EXCEPT ![first] = call'.item]
              /\ ret' = ReturnItem(call'.item)
              /\ call'.item.id = call'.id
                 => InMemoryDatabase_findById(store', call'.id).ret.item
                        = call'.item]_vars

\* An update has replaced the record at the second position of three, the
\* first with its identifier, a later one carrying the identifier too.
C3_Witness ==
    /\ call.op = "update"
    /\ ret = ReturnItem(call.item)
    /\ call.item.id = call.id
    /\ Len(store) = 3
    /\ PositionsOfId(store, call.id) = {2, 3}
    /\ store[2] = call.item
    /\ store[3] # call.item

\* C4 (as claimed): delete with an identifier some stored record has removes
\* the first record with that identifier and no other, the rest keeping
\* their order, and filter() no longer holds the removed record.
C4_DeleteThenAbsent ==
    [][(/\ call'.op = "delete"
        /\ PositionsOfId(store, call'.id) # {})
       => LET first == NthOf(PositionsOfId(store, call'.id), 1)
          IN  /\ ret' = ReturnVoid
              /\ Len(store') = Len(store) - 1
              /\ \A i \in 1..Len(store') :
                     store'[i] = IF i < first THEN store[i] ELSE store[i + 1]
              /\ Occurrences(
                     InMemoryDatabase_filter(store', Undefined).ret.items,
                     store[first]) = 0]_vars

\* C4 (amended): the same, with filter() holding the removed record once
\* less than the store held it before (so not at all when it was stored
\* once).
C4_DeleteThenOneLess ==
    [][(/\ call'.op = "delete"
        /\ PositionsOfId(store, call'.id) # {})
       => LET first == NthOf(PositionsOfId(store, call'.id), 1)
          IN  /\ ret' = ReturnVoid
              /\ Len(store') = Len(store) - 1
              /\ \A i \in 1..Len(store') :
                     store'[i] = IF i < first THEN store[i] ELSE store[i + 1]
              /\ Occurrences(
                     InMemoryDatabase_filter(store', Undefined).ret.items,
                     store[first]) = Occurrences(store, store[first]) - 1]_vars

\* A delete has succeeded and left two records, the second carrying the
\* identifier still.
C4_Witness ==
    /\ call.op = "delete"
    /\ ret = ReturnVoid
    /\ Len(store) = 2
    /\ PositionsOfId(store, call.id) = {2}

\* C5: filter returns the stored records that have every key/value pair of
\* the predicate, each as often as stored and in store order; with the
\* predicate omitted or empty it returns all stored records in store order.
C5_FilterSelects ==
    call.op = "filter" =>
        /\ ret.kind = "return"
        /\ IF call.obj = Undefined \/ DOMAIN call.obj = {}
           THEN ret.items = store
           ELSE LET M == MatchingPositions(store, call.obj)
                IN  /\ Len(ret.items) = Cardinality(M)
                    /\ \A k \in 1..Len(ret.items) :
                           ret.items[k] = store[NthOf(M, k)]

\* A filter on two keys has returned the first and third of three records,
\* the second having one of the two values only.
C5_Witness ==
    /\ call.op = "filter"
    /\ call.obj # Undefined
    /\ DOMAIN call.obj = {"id", "username"}
    /\ Len(store) = 3
    /\ ret.items = <<store[1], store[3]>>
    /\ store[2].id = call.obj["id"]

\* C6: find returns the first stored record that has every key/value pair
\* of the predicate, undefined when there is none; findById returns the
\* first stored record with the identifier, and is find({id}).
C6_FindFirst ==
    /\ call.op = "find" =>
           /\ ret.kind = "return"
           /\ LET M == MatchingPositions(store, call.obj)
              IN  ret.item = IF M = {} THEN Undefined ELSE store[NthOf(M, 1)]
    /\ call.op = "findById" =>
           /\ ret.kind = "return"
           /\ LET M == PositionsOfId(store, call.id)
              IN  ret.item = IF M = {} THEN Undefined ELSE store[NthOf(M, 1)]
    /\ \A id \in Ids :
           InMemoryDatabase_findById(store, id)
               = InMemoryDatabase_find(store, [id |-> id])

\* A find has returned the second of three records, the third matching the
\* predicate too and being a different record.
C6_Witness ==
    /\ call.op = "find"
    /\ Len(store) = 3
    /\ MatchingPositions(store, call.obj) = {2, 3}
    /\ ret.item = store[2]
    /\ store[3] # store[2]

\* C7: getById throws "User not found" exactly when findById returns
\* undefined, and returns the record findById returned otherwise; findById
\* never throws; the service and the controller end as the adapter does.
C7_GetByIdThrowsIffAbsent ==
    call.op \in GetOps =>
        LET found == InMemoryDatabase_findById(store, call.id).ret
        IN  /\ found.kind = "return"
            /\ ret.kind = "throw" <=> found.item = Undefined
            /\ ret.kind = "throw" => ret = Throw("User not found")
            /\ ret.kind = "return" => ret = ReturnItem(found.item)
            /\ found.item = Undefined <=> PositionsOfId(store, call.id) = {}

\* The controller's getUser has ended with the adapter's error on a store
\* that holds records.
C7_Witness ==
    /\ call.op = "controller.getUser"
    /\ ret = Throw("User not found")
    /\ Len(store) = 2

\* C8: create, and add and createUser through it, append the record as the
\* last one and change nothing else, whatever the store holds.
C8_CreateAppends ==
    [][call'.op \in CreateOps
       => (/\ ret' = ReturnVoid
           /\ store' = Append(store, call'.item))]_vars

\* The controller's createUser has appended a third record whose identifier
\* the first record carries too.
C8_Witness ==
    /\ call.op = "controller.createUser"
    /\ ret = ReturnVoid
    /\ Len(store) = 3
    /\ store[3] = call.item
    /\ store[1].id = store[3].id

\* C9: the end-to-end scenario from an empty store ends each of its steps
\* as stated.
C9_Scenario ==
    /\ step = 1 => ret = ReturnVoid /\ store = <<Alice>>
    /\ step = 2 => ret = ReturnItem(Alice)
    /\ step = 3 => ret = ReturnItem(Alice2)
    /\ step = 4 => ret.kind = "return" /\ ret.item # Undefined
                   /\ ret.item.username = "alice2"
    /\ step = 5 => ret = ReturnVoid
    /\ step = 6 => ret = ReturnItem(Undefined)
    /\ step = 7 => ret = Throw("User not found")

\* The scenario has run to its last step.
C9_Witness == step = 7 /\ call.op = "getById" /\ store = <<>>

\* C10: the store changes only in a call of create, update or delete (or of
\* add and createUser, which call create); nothing a caller does with what
\* find, findById and filter returned changes it.
C10_OnlyMutatorsChangeStore ==
    [][store' # store
       => call'.op \in CreateOps \cup {"update", "delete"}]_vars

=============================================================================
